---- MODULE Spec2Model ----
(***************************************************************************)
(* Model of createlib.custom_timer.CustomTimer (a self-rearming timer      *)
(* built on threading.Timer) and of the parts of TetheredDriveApp          *)
(* (Create2_proj.py) that drive the robot and poll its sensors.            *)
(*                                                                         *)
(* Threads: the "main" thread (the caller of start()/stop(), in the        *)
(* application the Tk main loop) and one thread per threading.Timer.       *)
(* The clock counts units of 250 ms, so the application's interval of      *)
(* 0.5 s is 2 units.                                                       *)
(***************************************************************************)
EXTENDS Integers, FiniteSets, Sequences, TLC

\* Python's None where a number, a Timer or a thread is expected
None == -1

\* the main thread, as the holder of a lock (Timer threads are 1, 2, ...)
Main == 0

\* ---- bounds of the model ----
MaxTime == 6        \* the clock stops advancing here
MaxTimers == 4      \* threading.Timer objects ever created
MaxObjs == 2        \* CustomTimer objects ever created
MaxAxis == 3        \* _set_motion is called with values in -MaxAxis..MaxAxis
MaxReading == 2     \* get_sensors() returns one of the readings 1..MaxReading

\* ---- program constants ----
Interval == 2               \* CustomTimer(0.5, ...) in units of 250 ms
VELOCITYCHANGE == 200
ROTATIONCHANGE == 300

Objs == 1..MaxObjs
Timers == 1..MaxTimers
Readings == 1..MaxReading

VARIABLES
    now,                    \* time.time()
    nobj,                   \* CustomTimer objects constructed so far
    repeat,                 \* CustomTimer.repeat, per object
    _stopped,               \* CustomTimer._stopped, per object
    next_call,              \* CustomTimer.next_call, per object
    _timer,                 \* CustomTimer._timer, per object (a Timer or None)
    _lock,                  \* CustomTimer._lock, per object: its holder or None
    nthr,                   \* threading.Timer objects created so far
    thr,                    \* the Timer threads
    mainpc,                 \* position of the main thread
    robot,                  \* TetheredDriveApp.robot
    velocity,               \* TetheredDriveApp.velocity
    rotation,               \* TetheredDriveApp.rotation
    sensor_poll_timer,      \* TetheredDriveApp.sensor_poll_timer
    sensor_polling_active,  \* TetheredDriveApp.sensor_polling_active
    chan,                   \* holder of the connection's channel lock
    pending,                \* the command the main thread is sending
    sent,                   \* last command written by drive_direct
    report,                 \* what the last key handler did
    quit,                   \* on_quit ran to the end
    nconn,                  \* Create2 objects constructed so far
    sensor_text,            \* content of the sensor_text widget: the texts
                            \* inserted since the last delete
    sensors,                \* per Timer thread: the reading poll_sensors holds
    anchor,                 \* per object: time of the start() that began the cadence
    armCount,               \* per object: timers armed in the current cadence
    restartAt,              \* per object: time of the external start() that followed
                            \* a stop() (0 while that start() waits for the lock)
    stopCalls,              \* per object: external stop() calls that returned since
                            \* the last external start() call, counted up to 2
    ignored                 \* per object: the last external start() found the
                            \* timer running (_stopped false) and armed nothing

timerVars == <<nobj, repeat, _stopped, next_call, _timer, _lock, nthr, thr>>
ghostVars == <<anchor, armCount, restartAt, stopCalls, ignored>>
appVars == <<robot, velocity, rotation, sensor_poll_timer,
             sensor_polling_active, chan, pending, sent, report, quit,
             nconn, sensor_text, sensors>>
vars == <<now, timerVars, mainpc, appVars, ghostVars>>

\* ---- helpers ----
Max(a, b) == IF a >= b THEN a ELSE b

\* Python truth value of next_call: None and 0 are both false
Falsy(x) == x = None \/ x = 0

\* a Timer thread: st is its position, owner its CustomTimer, due the time its
\* delay ends, n the index of its deadline in the cadence, outcome how the
\* callback ended, cancelledBy who cancelled it ("ext": a caller's stop(),
\* "run": the stop() of a firing); a thread that ended keeps st, owner and
\* outcome only
FreeThread == [st |-> "free", owner |-> 0, due |-> 0, n |-> 0,
               outcome |-> "none", cancelledBy |-> "none"]

Ended(o, outcome) == [st |-> "done", owner |-> o, due |-> 0, n |-> 0,
                      outcome |-> outcome, cancelledBy |-> "none"]

\* the states of a Timer thread whose function (CustomTimer._run) is executing
InRun == {"callback", "io", "delete", "insert", "finally", "locked"}

\* ---- threading.Timer ----
\* Timer.cancel(): sets the finished event; it only stops a timer still waiting
Cancel(th, t, who) ==
    IF th[t].st = "armed"
    THEN [th EXCEPT ![t] = [Ended(th[t].owner, "none") EXCEPT !.st = "cancelled",
                                                      !.cancelledBy = who]]
    ELSE th

\* ---- CustomTimer.start ----
\* line 30: the test that decides whether start() arms a timer
ShouldArmAlways(from_run, stopped) == TRUE
ShouldArm(from_run, stopped) == from_run \/ stopped

\* lines 32-35: the deadline of the timer being armed
NextCallNow(nc, t) == t + Interval
NextCall(nc, t) == IF Falsy(nc) THEN t + Interval ELSE nc + Interval

\* line 37
DelayUnclamped(nc, t) == nc - t
Delay(nc, t) == Max(0, nc - t)

\* lines 30-40, executed with the lock held; who is "ext" or "run" and th
\* is the thread table the caller leaves
StartBody(o, from_run, who, th) ==
    IF ShouldArm(from_run, _stopped[o])
    THEN LET nc == NextCall(next_call[o], now)
             t == nthr + 1
             fresh == who = "ext"
             cnt == IF fresh THEN 1 ELSE armCount[o] + 1
         IN /\ nthr < MaxTimers
            /\ nthr' = t
            /\ next_call' = [next_call EXCEPT ![o] = nc]
            /\ thr' = [th EXCEPT ![t] =
                         [st |-> "armed", owner |-> o, due |-> now + Delay(nc, now),
                          n |-> cnt, outcome |-> "none",
                          cancelledBy |-> "none"]]
            /\ _timer' = [_timer EXCEPT ![o] = t]
            /\ _stopped' = [_stopped EXCEPT ![o] = FALSE]
            /\ anchor' = IF fresh THEN [anchor EXCEPT ![o] = now] ELSE anchor
            /\ armCount' = [armCount EXCEPT ![o] = cnt]
    ELSE /\ thr' = th
         /\ UNCHANGED <<nthr, next_call, _timer, _stopped, anchor, armCount>>

\* ---- CustomTimer.stop ----
\* line 62
StoppedAfterStopKeep(s) == s
StoppedAfterStop(s) == TRUE

\* line 63
NextCallAfterStop(nc) == None

\* lines 59-63, executed with the lock held
StopBody(o, who, th) ==
    /\ thr' = IF _timer[o] # None THEN Cancel(th, _timer[o], who) ELSE th
    /\ _timer' = [_timer EXCEPT ![o] = None]
    /\ _stopped' = [_stopped EXCEPT ![o] = StoppedAfterStop(_stopped[o])]
    /\ next_call' = [next_call EXCEPT ![o] = NextCallAfterStop(next_call[o])]
    /\ anchor' = [anchor EXCEPT ![o] = None]
    /\ armCount' = [armCount EXCEPT ![o] = 0]
    /\ UNCHANGED nthr

\* ---- external callers of start() and stop() (main thread) ----
\* start(): line 29, the lock is acquired
ExtStartAcquire(o) ==
    /\ mainpc = "idle" /\ o <= nobj /\ ~quit
    /\ _lock[o] = None
    /\ _lock' = [_lock EXCEPT ![o] = Main]
    /\ mainpc' = "start"
    /\ stopCalls' = [stopCalls EXCEPT ![o] = 0]
    /\ restartAt' = [restartAt EXCEPT ![o] = IF stopCalls[o] > 0 THEN 0 ELSE None]
    /\ UNCHANGED <<now, nobj, repeat, _stopped, next_call, _timer, nthr, thr,
                   appVars, anchor, armCount, ignored>>

\* start(): lines 30-40, then the lock is released
ExtStartBody(o) ==
    /\ mainpc = "start" /\ _lock[o] = Main
    /\ StartBody(o, FALSE, "ext", thr)
    /\ _lock' = [_lock EXCEPT ![o] = None]
    /\ mainpc' = "idle"
    /\ restartAt' = [restartAt EXCEPT ![o] = IF @ = 0 THEN now ELSE @]
    /\ ignored' = [ignored EXCEPT ![o] = ~ShouldArm(FALSE, _stopped[o])]
    /\ UNCHANGED <<now, nobj, repeat, appVars, stopCalls>>

\* stop(): line 58, the lock is acquired
ExtStopAcquire(o) ==
    /\ mainpc = "idle" /\ o <= nobj /\ ~quit
    /\ _lock[o] = None
    /\ _lock' = [_lock EXCEPT ![o] = Main]
    /\ mainpc' = "stop"
    /\ UNCHANGED <<now, nobj, repeat, _stopped, next_call, _timer, nthr, thr,
                   appVars, ghostVars>>

\* stop(): lines 59-63, then the lock is released
ExtStopBody(o) ==
    /\ mainpc = "stop" /\ _lock[o] = Main
    /\ StopBody(o, "ext", thr)
    /\ _lock' = [_lock EXCEPT ![o] = None]
    /\ mainpc' = "idle"
    /\ restartAt' = [restartAt EXCEPT ![o] = None]
    /\ stopCalls' = [stopCalls EXCEPT ![o] = IF @ < 2 THEN @ + 1 ELSE @]
    /\ ignored' = [ignored EXCEPT ![o] = FALSE]
    /\ UNCHANGED <<now, nobj, repeat, appVars>>

\* ---- the Timer thread: Timer.run and CustomTimer._run ----
\* the delay elapsed and the timer was not cancelled: _run begins (line 46)
Fire(t) ==
    /\ t <= nthr /\ thr[t].st = "armed"
    /\ now >= thr[t].due
    /\ thr' = [thr EXCEPT ![t].st = "callback"]
    /\ UNCHANGED <<now, nobj, repeat, _stopped, next_call, _timer, _lock, nthr,
                   mainpc, appVars, ghostVars>>

\* lines 46-48: whether the finally block runs after the callback's outcome
RunsFinallyOnSuccess(outcome) == outcome = "ok"
RunsFinally(outcome) == TRUE

\* line 47: the callback returns or raises
CallbackEnd(t, outcome) ==
    /\ t <= nthr /\ thr[t].st = "callback"
    /\ thr' = [thr EXCEPT ![t].st = "finally", ![t].outcome = outcome]
    /\ UNCHANGED <<now, nobj, repeat, _stopped, next_call, _timer, _lock, nthr,
                   mainpc, appVars, ghostVars>>

\* lines 48-52: the finally block is entered and start(from_run=True) or
\* stop() acquires the lock
RunAcquireNoLock(t) ==
    /\ t <= nthr /\ thr[t].st = "finally"
    /\ _lock' = [_lock EXCEPT ![thr[t].owner] = t]
    /\ thr' = [thr EXCEPT ![t].st = "locked"]
    /\ UNCHANGED <<now, nobj, repeat, _stopped, next_call, _timer, nthr,
                   mainpc, appVars, ghostVars>>
RunAcquire(t) ==
    /\ t <= nthr /\ thr[t].st = "finally"
    /\ IF RunsFinally(thr[t].outcome)
       THEN /\ _lock[thr[t].owner] = None
            /\ _lock' = [_lock EXCEPT ![thr[t].owner] = t]
            /\ thr' = [thr EXCEPT ![t].st = "locked"]
       ELSE /\ thr' = [thr EXCEPT ![t] = Ended(thr[t].owner, thr[t].outcome)]
            /\ UNCHANGED _lock
    /\ UNCHANGED <<now, nobj, repeat, _stopped, next_call, _timer, nthr,
                   mainpc, appVars, ghostVars>>

\* line 50: the body of start(from_run=True), then the lock is released and
\* the thread ends
RunRearm(t) ==
    /\ t <= nthr /\ thr[t].st = "locked" /\ repeat[thr[t].owner]
    /\ StartBody(thr[t].owner, TRUE, "run", [thr EXCEPT ![t] = Ended(thr[t].owner, thr[t].outcome)])
    /\ _lock' = [_lock EXCEPT ![thr[t].owner] = None]
    /\ UNCHANGED <<now, nobj, repeat, mainpc, appVars, restartAt, stopCalls,
                   ignored>>

\* line 52: the body of stop(), then the lock is released and the thread ends
RunStop(t) ==
    /\ t <= nthr /\ thr[t].st = "locked" /\ ~repeat[thr[t].owner]
    /\ StopBody(thr[t].owner, "run", [thr EXCEPT ![t] = Ended(thr[t].owner, thr[t].outcome)])
    /\ _lock' = [_lock EXCEPT ![thr[t].owner] = None]
    /\ UNCHANGED <<now, nobj, repeat, mainpc, appVars, restartAt, stopCalls,
                   ignored>>

\* ---- the clock: d units of time pass ----
Tick(d) ==
    /\ now + d <= MaxTime
    /\ now' = now + d
    /\ UNCHANGED <<timerVars, mainpc, appVars, ghostVars>>

\* ---- TetheredDriveApp.__init__ (lines 110-117) ----
AppInit ==
    /\ robot = "None"
    /\ velocity = 0
    /\ rotation = 0
    /\ sensor_poll_timer = None
    /\ sensor_polling_active = FALSE
    /\ chan = None
    /\ pending = <<>>
    /\ sent = <<>>
    /\ report = [key |-> "none", err |-> "none"]
    /\ quit = FALSE
    /\ nconn = 0
    /\ sensor_text = <<>>
    /\ sensors = [t \in Timers |-> None]

\* ---- CustomTimer.__init__ (lines 12-23): one timer, repeating or one-shot,
\* with or without autostart; with autostart the constructor ran start() ----
NewTimer(o, rep, autostart, th, k) ==
    [rep |-> rep,
     stopped |-> ~autostart,
     next_call |-> IF autostart THEN NextCall(None, now) ELSE None,
     timer |-> IF autostart THEN k ELSE None,
     thread |-> IF autostart
                THEN [st |-> "armed", owner |-> o,
                      due |-> now + Delay(NextCall(None, now), now),
                      n |-> 1, outcome |-> "none",
                      cancelledBy |-> "none"]
                ELSE FreeThread]

TimerInit ==
    /\ now = 1
    /\ nobj = 1
    /\ mainpc = "idle"
    /\ \E rep \in BOOLEAN, autostart \in BOOLEAN :
          LET c == NewTimer(1, rep, autostart, 0, 1) IN
          /\ repeat = [o \in Objs |-> rep]
          /\ _stopped = [o \in Objs |-> IF o = 1 THEN c.stopped ELSE TRUE]
          /\ next_call = [o \in Objs |-> IF o = 1 THEN c.next_call ELSE None]
          /\ _timer = [o \in Objs |-> IF o = 1 THEN c.timer ELSE None]
          /\ nthr = IF autostart THEN 1 ELSE 0
          /\ thr = [t \in Timers |-> IF t = 1 THEN c.thread ELSE FreeThread]
          /\ anchor = [o \in Objs |-> IF o = 1 /\ autostart THEN now ELSE None]
          /\ armCount = [o \in Objs |-> IF o = 1 /\ autostart THEN 1 ELSE 0]
          /\ restartAt = [o \in Objs |-> None]
          /\ stopCalls = [o \in Objs |-> 0]
          /\ ignored = [o \in Objs |-> FALSE]
    /\ _lock = [o \in Objs |-> None]
    /\ AppInit

\* a CustomTimer used by one caller thread
TimerNext ==
    \/ ExtStartAcquire(1)
    \/ ExtStartBody(1)
    \/ ExtStopAcquire(1)
    \/ ExtStopBody(1)
    \/ \E t \in Timers : Fire(t)
    \/ \E t \in Timers, outcome \in {"ok", "raise"} : CallbackEnd(t, outcome)
    \/ \E t \in Timers : RunAcquire(t)
    \/ \E t \in Timers : RunRearm(t)
    \/ \E t \in Timers : RunStop(t)
    \/ Tick(1)

SpecTimer == TimerInit /\ [][TimerNext]_vars

\* ======================= TetheredDriveApp =======================
ModeKeys == {"P", "S", "F", "C", "R"}
MotionKeys == {"UP", "DOWN", "LEFT", "RIGHT"}
\* the commands as the handlers report them ("motion": an arrow key)
CommandKeys == ModeKeys \cup {"B", "SPACE", "O", "motion"}

\* the values _set_motion is called with, the application's own included
AxisValues == (-MaxAxis..MaxAxis) \cup {VELOCITYCHANGE, ROTATIONCHANGE}

\* the keys typed while the polling of the sensors is being observed
SessionMotionKeys == {"UP"}
SessionModeKeys == {"S"}
\* the reading the robot gives during that session: it stands still
SessionReadings == {1}

\* require_robot (lines 96-99): the wrapped function runs only with a robot
RequireRobot(r) == r # "None"

\* ---- the connection (Create2, createlib.create_robot), by its contract:
\* send and query hold one exclusive channel lock ----
ChanFreeAlways(c) == TRUE
ChanFree(c) == c = None

\* int(x) of a float x given in halves: truncation toward zero
PyIntFloor(halves) == IF halves >= 0 THEN halves \div 2 ELSE -(((-halves) + 1) \div 2)
PyInt(halves) == IF halves >= 0 THEN halves \div 2 ELSE -((-halves) \div 2)

\* lines 219-221: the arguments of drive_direct; v + r/2 is (2v + r)/2
DriveCommand(v, r) == <<"drive", PyInt(2 * v - r), PyInt(2 * v + r)>>

\* _set_motion (lines 209-221) up to the call of drive_direct; hv and hr say
\* whether the velocity and rotation arguments are given
SetMotionStale(hv, v, hr, r) ==
    IF RequireRobot(robot)
    THEN /\ velocity' = IF hv THEN v ELSE velocity
         /\ rotation' = IF hr THEN r ELSE rotation
         /\ pending' = <<DriveCommand(velocity, rotation)>>
         /\ mainpc' = "send"
         /\ report' = [key |-> "motion", err |-> "none"]
    ELSE /\ report' = [key |-> "motion", err |-> "NotConnected"]
         /\ UNCHANGED <<velocity, rotation, pending, mainpc>>
SetMotion(hv, v, hr, r) ==
    IF RequireRobot(robot)
    THEN LET nv == IF hv THEN v ELSE velocity
             nr == IF hr THEN r ELSE rotation
         IN /\ velocity' = nv
            /\ rotation' = nr
            /\ pending' = <<DriveCommand(nv, nr)>>
            /\ mainpc' = "send"
            /\ report' = [key |-> "motion", err |-> "none"]
    ELSE /\ report' = [key |-> "motion", err |-> "NotConnected"]
         /\ UNCHANGED <<velocity, rotation, pending, mainpc>>

\* a call of _set_motion with any arguments
SetMotionCall(hv, v, hr, r) ==
    /\ mainpc = "idle" /\ ~quit
    /\ SetMotion(hv, v, hr, r)
    /\ UNCHANGED <<now, timerVars, ghostVars, robot, sensor_poll_timer,
                   sensor_polling_active, chan, sent, quit,
                   nconn, sensor_text, sensors>>

\* handle_keypress, lines 192-195: the arrow keys
KeyPressMotion(key) ==
    /\ mainpc = "idle" /\ ~quit
    /\ CASE key = "UP" -> SetMotion(TRUE, VELOCITYCHANGE, FALSE, 0)
         [] key = "DOWN" -> SetMotion(TRUE, -VELOCITYCHANGE, FALSE, 0)
         [] key = "LEFT" -> SetMotion(FALSE, 0, TRUE, ROTATIONCHANGE)
         [] key = "RIGHT" -> SetMotion(FALSE, 0, TRUE, -ROTATIONCHANGE)
    /\ UNCHANGED <<now, timerVars, ghostVars, robot, sensor_poll_timer,
                   sensor_polling_active, chan, sent, quit,
                   nconn, sensor_text, sensors>>

\* handle_keyrelease, lines 201-207
KeyReleaseBoth(key) ==
    /\ mainpc = "idle" /\ ~quit
    /\ SetMotion(TRUE, 0, TRUE, 0)
    /\ UNCHANGED <<now, timerVars, ghostVars, robot, sensor_poll_timer,
                   sensor_polling_active, chan, sent, quit,
                   nconn, sensor_text, sensors>>
KeyRelease(key) ==
    /\ mainpc = "idle" /\ ~quit
    /\ IF key \in {"UP", "DOWN"}
       THEN SetMotion(TRUE, 0, FALSE, 0)
       ELSE SetMotion(FALSE, 0, TRUE, 0)
    /\ UNCHANGED <<now, timerVars, ghostVars, robot, sensor_poll_timer,
                   sensor_polling_active, chan, sent, quit,
                   nconn, sensor_text, sensors>>

\* handle_keypress, lines 184-188 and 190: self.robot.start() and the like,
\* called without require_robot
KeyPressMode(key) ==
    /\ mainpc = "idle" /\ ~quit
    /\ IF robot = "None"
       THEN /\ report' = [key |-> key, err |-> "AttributeError"]
            /\ UNCHANGED <<pending, mainpc>>
       ELSE /\ report' = [key |-> key, err |-> "none"]
            /\ pending' = <<<<key, 0, 0>>>>
            /\ mainpc' = "send"
    /\ UNCHANGED <<now, timerVars, ghostVars, robot, velocity, rotation,
                   sensor_poll_timer, sensor_polling_active, chan, sent, quit,
                   nconn, sensor_text, sensors>>

\* handle_keypress, line 189, and _beep_song (lines 315-319): two commands
KeyPressBeep ==
    /\ mainpc = "idle" /\ ~quit
    /\ IF RequireRobot(robot)
       THEN /\ report' = [key |-> "SPACE", err |-> "none"]
            /\ pending' = <<<<"createSong", 0, 0>>, <<"playSong", 0, 0>>>>
            /\ mainpc' = "send"
       ELSE /\ report' = [key |-> "SPACE", err |-> "NotConnected"]
            /\ UNCHANGED <<pending, mainpc>>
    /\ UNCHANGED <<now, timerVars, ghostVars, robot, velocity, rotation,
                   sensor_poll_timer, sensor_polling_active, chan, sent, quit,
                   nconn, sensor_text, sensors>>

\* the main thread's command waits for the channel and takes it
SendAcquire ==
    /\ mainpc = "send"
    /\ ChanFree(chan)
    /\ chan' = Main
    /\ mainpc' = "sending"
    /\ UNCHANGED <<now, timerVars, ghostVars, robot, velocity, rotation,
                   sensor_poll_timer, sensor_polling_active, pending, sent,
                   report, quit,
                   nconn, sensor_text, sensors>>

\* the command is written (and, for a query, answered); the channel is freed
SendEnd ==
    /\ mainpc = "sending"
    /\ chan' = None
    /\ sent' = IF pending[1][1] = "drive" THEN pending[1] ELSE sent
    /\ pending' = Tail(pending)
    /\ mainpc' = IF Len(pending) > 1 THEN "send" ELSE "idle"
    /\ UNCHANGED <<now, timerVars, ghostVars, robot, velocity, rotation,
                   sensor_poll_timer, sensor_polling_active, report, quit,
                   nconn, sensor_text, sensors>>

\* toggle_sensor_polling, lines 332-336: polling is off, a CustomTimer is
\* constructed (autostart) and runs start()
ToggleOn ==
    /\ mainpc = "idle" /\ ~quit
    /\ RequireRobot(robot) /\ ~sensor_polling_active
    /\ nobj < MaxObjs
    /\ nobj' = nobj + 1
    /\ StartBody(nobj + 1, FALSE, "ext", thr)
    /\ sensor_poll_timer' = nobj + 1
    /\ sensor_polling_active' = TRUE
    /\ report' = [key |-> "O", err |-> "none"]
    /\ UNCHANGED <<now, repeat, _lock, mainpc, robot, velocity, rotation, chan,
                   pending, sent, quit, restartAt, stopCalls, ignored,
                   nconn, sensor_text, sensors>>

\* toggle_sensor_polling without a robot: require_robot reports and returns
ToggleRejected ==
    /\ mainpc = "idle" /\ ~quit
    /\ ~RequireRobot(robot)
    /\ report' = [key |-> "O", err |-> "NotConnected"]
    /\ UNCHANGED <<now, timerVars, ghostVars, mainpc, robot, velocity, rotation,
                   sensor_poll_timer, sensor_polling_active, chan, pending,
                   sent, quit,
                   nconn, sensor_text, sensors>>

\* toggle_sensor_polling, lines 326-328: polling is on, stop() of the poll
\* timer acquires the timer's lock
ToggleOffAcquire ==
    /\ mainpc = "idle" /\ ~quit
    /\ RequireRobot(robot) /\ sensor_polling_active
    /\ sensor_poll_timer # None
    /\ _lock[sensor_poll_timer] = None
    /\ _lock' = [_lock EXCEPT ![sensor_poll_timer] = Main]
    /\ mainpc' = "toggle"
    /\ report' = [key |-> "O", err |-> "none"]
    /\ UNCHANGED <<now, nobj, repeat, _stopped, next_call, _timer, nthr, thr,
                   ghostVars, robot, velocity, rotation, sensor_poll_timer,
                   sensor_polling_active, chan, pending, sent, quit,
                   nconn, sensor_text, sensors>>

\* toggle_sensor_polling, lines 328-331: the body of stop(), then the
\* reference is dropped and polling is marked off
ToggleOffBody ==
    /\ mainpc = "toggle"
    /\ StopBody(sensor_poll_timer, "ext", thr)
    /\ _lock' = [_lock EXCEPT ![sensor_poll_timer] = None]
    /\ restartAt' = [restartAt EXCEPT ![sensor_poll_timer] = None]
    /\ stopCalls' = [stopCalls EXCEPT ![sensor_poll_timer] = IF @ < 2 THEN @ + 1 ELSE @]
    /\ ignored' = [ignored EXCEPT ![sensor_poll_timer] = FALSE]
    /\ sensor_poll_timer' = None
    /\ sensor_polling_active' = FALSE
    /\ mainpc' = "idle"
    /\ UNCHANGED <<now, nobj, repeat, robot, velocity, rotation, chan, pending,
                   sent, report, quit,
                   nconn, sensor_text, sensors>>

\* on_connect (lines 230-263); res is what the port search and Create2() give
OnConnectAgain(res) ==
    /\ mainpc = "idle" /\ ~quit
    /\ IF res = "ok"
       THEN /\ robot' = "conn"
            /\ nconn' = nconn + 1
            /\ report' = [key |-> "connect", err |-> "none"]
       ELSE /\ report' = [key |-> "connect", err |-> res]
            /\ UNCHANGED <<robot, nconn>>
    /\ UNCHANGED <<now, timerVars, ghostVars, mainpc, velocity, rotation,
                   sensor_poll_timer, sensor_polling_active, chan, pending,
                   sent, quit, sensor_text, sensors>>
OnConnect(res) ==
    /\ mainpc = "idle" /\ ~quit
    /\ IF robot # "None"
       THEN /\ report' = [key |-> "connect", err |-> "AlreadyConnected"]
            /\ UNCHANGED <<robot, nconn>>
       ELSE IF res = "ok"
            THEN /\ robot' = "conn"
                 /\ nconn' = nconn + 1
                 /\ report' = [key |-> "connect", err |-> "none"]
            ELSE /\ report' = [key |-> "connect", err |-> res]
                 /\ UNCHANGED <<robot, nconn>>
    /\ UNCHANGED <<now, timerVars, ghostVars, mainpc, velocity, rotation,
                   sensor_poll_timer, sensor_polling_active, chan, pending,
                   sent, quit, sensor_text, sensors>>

\* on_quit (lines 271-278), the operator having confirmed: the robot
\* attribute is deleted and the window destroyed; the poll timer is not touched
OnQuit ==
    /\ mainpc = "idle" /\ ~quit
    /\ robot' = IF robot = "conn" THEN "deleted" ELSE robot
    /\ quit' = TRUE
    /\ report' = [key |-> "ESCAPE", err |-> "none"]
    /\ UNCHANGED <<now, timerVars, ghostVars, mainpc, velocity, rotation,
                   sensor_poll_timer, sensor_polling_active, chan, pending, sent,
                   nconn, sensor_text, sensors>>

\* ---- poll_sensors (lines 338-355) on a Timer thread ----
\* require_robot and self.robot.get_sensors(): without a robot the wrapper
\* returns, with the attribute deleted the access raises, otherwise the query
\* waits for the channel and takes it
PollBegin(t) ==
    /\ t <= nthr /\ thr[t].st = "callback"
    /\ CASE robot = "None" ->
              /\ thr' = [thr EXCEPT ![t].st = "finally", ![t].outcome = "ok"]
              /\ UNCHANGED chan
         [] robot = "deleted" ->
              /\ thr' = [thr EXCEPT ![t].st = "finally", ![t].outcome = "raise"]
              /\ UNCHANGED chan
         [] robot = "conn" ->
              /\ ChanFree(chan)
              /\ chan' = t
              /\ thr' = [thr EXCEPT ![t].st = "io"]
    /\ UNCHANGED <<now, nobj, repeat, _stopped, next_call, _timer, _lock, nthr,
                   mainpc, ghostVars, robot, velocity, rotation,
                   sensor_poll_timer, sensor_polling_active, pending, sent,
                   report, quit,
                   nconn, sensor_text, sensors>>

\* a call on the sensor_text widget raises once the window is destroyed
PollRaises(t) ==
    /\ thr' = [thr EXCEPT ![t].st = "finally", ![t].outcome = "raise"]
    /\ sensors' = [sensors EXCEPT ![t] = None]
    /\ UNCHANGED sensor_text

\* lines 343-351: the query fails, or is answered with the reading r; the
\* channel is freed, the widget's text is read and compared with the new text
PollEnd(t, outcome, r) ==
    /\ t <= nthr /\ thr[t].st = "io"
    /\ chan' = None
    /\ IF outcome # "ok" \/ quit
       THEN PollRaises(t)
       ELSE IF sensor_text = <<r>>
            THEN /\ thr' = [thr EXCEPT ![t].st = "finally", ![t].outcome = "ok"]
                 /\ UNCHANGED <<sensors, sensor_text>>
            ELSE /\ thr' = [thr EXCEPT ![t].st = "delete"]
                 /\ sensors' = [sensors EXCEPT ![t] = r]
                 /\ UNCHANGED sensor_text
    /\ UNCHANGED <<now, nobj, repeat, _stopped, next_call, _timer, _lock, nthr,
                   mainpc, ghostVars, robot, velocity, rotation,
                   sensor_poll_timer, sensor_polling_active, pending, sent,
                   report, quit, nconn>>

\* lines 352-353: the widget is made writable and its text deleted
PollDelete(t) ==
    /\ t <= nthr /\ thr[t].st = "delete"
    /\ IF quit
       THEN PollRaises(t)
       ELSE /\ sensor_text' = <<>>
            /\ thr' = [thr EXCEPT ![t].st = "insert"]
            /\ UNCHANGED sensors
    /\ UNCHANGED <<now, nobj, repeat, _stopped, next_call, _timer, _lock, nthr,
                   mainpc, ghostVars, robot, velocity, rotation,
                   sensor_poll_timer, sensor_polling_active, chan, pending,
                   sent, report, quit, nconn>>

\* lines 354-355: the new text is inserted at the end and the widget made
\* read-only
PollInsert(t) ==
    /\ t <= nthr /\ thr[t].st = "insert"
    /\ IF quit
       THEN PollRaises(t)
       ELSE /\ sensor_text' = Append(sensor_text, sensors[t])
            /\ thr' = [thr EXCEPT ![t].st = "finally", ![t].outcome = "ok"]
            /\ sensors' = [sensors EXCEPT ![t] = None]
    /\ UNCHANGED <<now, nobj, repeat, _stopped, next_call, _timer, _lock, nthr,
                   mainpc, ghostVars, robot, velocity, rotation,
                   sensor_poll_timer, sensor_polling_active, chan, pending,
                   sent, report, quit, nconn>>

\* ---- the application: no CustomTimer exists before polling is toggled on ----
Init ==
    /\ now = 1
    /\ nobj = 0
    /\ mainpc = "idle"
    /\ repeat = [o \in Objs |-> TRUE]
    /\ _stopped = [o \in Objs |-> TRUE]
    /\ next_call = [o \in Objs |-> None]
    /\ _timer = [o \in Objs |-> None]
    /\ _lock = [o \in Objs |-> None]
    /\ nthr = 0
    /\ thr = [t \in Timers |-> FreeThread]
    /\ anchor = [o \in Objs |-> None]
    /\ armCount = [o \in Objs |-> 0]
    /\ restartAt = [o \in Objs |-> None]
    /\ stopCalls = [o \in Objs |-> 0]
    /\ ignored = [o \in Objs |-> FALSE]
    /\ AppInit

\* the session: connecting, polling, driving and quitting
Next ==
    \/ OnConnect("ok")
    \/ \E key \in SessionMotionKeys : KeyPressMotion(key)
    \/ \E key \in SessionModeKeys : KeyPressMode(key)
    \/ SendAcquire
    \/ SendEnd
    \/ ToggleOn
    \/ ToggleOffAcquire
    \/ ToggleOffBody
    \/ OnQuit
    \/ \E t \in Timers : Fire(t)
    \/ \E t \in Timers : PollBegin(t)
    \/ \E t \in Timers, outcome \in {"ok", "raise"}, r \in SessionReadings :
          PollEnd(t, outcome, r)
    \/ \E t \in Timers : PollDelete(t)
    \/ \E t \in Timers : PollInsert(t)
    \/ \E t \in Timers : RunAcquire(t)
    \/ \E t \in Timers : RunRearm(t)
    \/ Tick(Interval)

Spec == Init /\ [][Next]_vars

\* the sensor display: polling toggled on and off while the readings change
PollNext ==
    \/ OnConnect("ok")
    \/ ToggleOn
    \/ ToggleOffAcquire
    \/ ToggleOffBody
    \/ \E t \in Timers : Fire(t)
    \/ \E t \in Timers : PollBegin(t)
    \/ \E t \in Timers, outcome \in {"ok", "raise"}, r \in Readings :
          PollEnd(t, outcome, r)
    \/ \E t \in Timers : PollDelete(t)
    \/ \E t \in Timers : PollInsert(t)
    \/ \E t \in Timers : RunAcquire(t)
    \/ \E t \in Timers : RunRearm(t)
    \/ Tick(Interval)

SpecPoll == Init /\ [][PollNext]_vars

\* the keyboard: every key, pressed with or without a robot; the polling
\* key is pressed only without a robot
KeysNext ==
    \/ \E res \in {"ok", "failed", "cancelled"} : OnConnect(res)
    \/ \E key \in MotionKeys : KeyPressMotion(key)
    \/ \E key \in MotionKeys : KeyRelease(key)
    \/ \E key \in ModeKeys \cup {"B"} : KeyPressMode(key)
    \/ KeyPressBeep
    \/ ToggleRejected
    \/ SendAcquire
    \/ SendEnd
    \/ OnQuit

SpecKeys == Init /\ [][KeysNext]_vars

\* _set_motion called with every pair of values of AxisValues
MotionNext ==
    \/ OnConnect("ok")
    \/ \E hv \in BOOLEAN, hr \in BOOLEAN, v \in AxisValues, r \in AxisValues :
          SetMotionCall(hv, v, hr, r)
    \/ SendAcquire
    \/ SendEnd

SpecMotion == Init /\ [][MotionNext]_vars

\* ---- properties of CustomTimer ----
Live(o) == {t \in Timers : t <= nthr /\ thr[t].owner = o}

\* the firing of thread t ends in this step
Ends(t) == t <= nthr /\ thr[t].st \in InRun /\ thr'[t].st = "done"

\* the main thread returns from stop() on object o in this step
StopReturns(o) == mainpc = "stop" /\ _lock[o] = Main /\ mainpc' = "idle"

AtRest(o) == _stopped[o] /\ _timer[o] = None /\ next_call[o] = None

\* C1: once an external stop() of a repeating timer has returned, and until
\* the next external start(), no firing is armed (so no callback begins).
C1_NoFiringAfterStop ==
    \A o \in Objs : \A t \in Live(o) :
        repeat[o] /\ stopCalls[o] > 0 => thr[t].st # "armed"

\* C2: in a cadence begun by start() at time t0 and not stopped since, the
\* deadline of the nth timer armed is t0 + n * Interval.
C2_FixedRate ==
    \A o \in Objs :
        o <= nobj /\ repeat[o] /\ anchor[o] # None
            => next_call[o] = anchor[o] + armCount[o] * Interval

C2_Witness ==
    /\ repeat[1] /\ anchor[1] # None /\ armCount[1] = 3
    /\ next_call[1] = anchor[1] + 3 * Interval
    /\ thr[_timer[1]].st = "armed"

\* C3: when a firing whose callback raised ends, a repeating timer has armed
\* a new timer, whose deadline is t0 + (k+1) * Interval when the firing was
\* the kth and latest of the cadence, and a one-shot timer is at rest:
\* _stopped true, _timer None, next_call None.
C3_FailingCallback ==
    [][\A t \in Timers :
         Ends(t) /\ thr[t].outcome = "raise" =>
            LET o == thr[t].owner IN
            IF repeat[o]
            THEN /\ nthr' = nthr + 1
                 /\ _timer'[o] = nthr'
                 /\ thr'[nthr'].st = "armed" /\ thr'[nthr'].owner = o
                 /\ ~_stopped'[o]
                 /\ (anchor[o] # None /\ thr[t].n = armCount[o]
                       => next_call'[o] = anchor[o] + (thr[t].n + 1) * Interval)
            ELSE _stopped'[o] /\ _timer'[o] = None /\ next_call'[o] = None
      ]_vars

C3_Witness ==
    \E t \in Live(1) :
        /\ repeat[1] /\ thr[t].st = "done" /\ thr[t].outcome = "raise"
        /\ anchor[1] # None /\ armCount[1] = 3 /\ _timer[1] = nthr
        /\ thr[nthr].st = "armed" /\ thr[nthr].n = 3
        /\ next_call[1] = anchor[1] + 3 * Interval

\* C8: every external stop() leaves the timer at rest (_stopped true, _timer
\* None, next_call None), creates no timer and lets no callback begin; on a
\* timer already at rest (never started, or just stopped) it changes nothing.
C8_StopIdempotent ==
    [][\A o \in Objs :
         StopReturns(o) =>
            /\ _stopped'[o] /\ _timer'[o] = None /\ next_call'[o] = None
            /\ nthr' = nthr
            /\ \A t \in Timers : thr'[t].st \in {"armed", "callback"}
                                      => thr'[t] = thr[t]
            /\ (AtRest(o) => thr' = thr)
      ]_vars

\* a timer that was never started, on which stop() has returned twice
C8_Witness ==
    nthr = 0 /\ stopCalls[1] = 2 /\ mainpc = "idle" /\ AtRest(1)

\* C9: after stop() followed by start() at time t1, every deadline of the
\* repeating timer is t1 + n * Interval for some n >= 1.
C9_RestartResetsCadence ==
    \A o \in Objs :
        o <= nobj /\ repeat[o] /\ restartAt[o] # None /\ restartAt[o] # 0
            => \E n \in 1..MaxTimers : next_call[o] = restartAt[o] + n * Interval

\* C10: a one-shot timer fires once for each start(): no timer it armed is
\* cancelled by a firing's own completion step; and once no timer is armed
\* and no firing is running it is stopped with next_call None.
C10_OneShotOncePerStart ==
    \A o \in Objs :
        o <= nobj /\ ~repeat[o] =>
            /\ \A t \in Live(o) : thr[t].cancelledBy # "run"
            /\ ((\A t \in Live(o) : thr[t].st \in {"cancelled", "done"})
                    /\ _lock[o] = None
                  => _stopped[o] /\ next_call[o] = None)

\* the main thread returns from start() on object o in this step
StartReturns(o) == mainpc = "start" /\ _lock[o] = Main /\ mainpc' = "idle"

\* C11: an external start() on a timer that is running (_stopped false: a
\* timer is armed or a repeating firing is executing) is ignored: it creates
\* and arms no timer and leaves next_call, _timer and _stopped unchanged.
C11_RedundantStartIgnored ==
    [][\A o \in Objs :
         StartReturns(o) /\ ~_stopped[o] =>
            /\ nthr' = nthr /\ thr' = thr
            /\ next_call'[o] = next_call[o]
            /\ _timer'[o] = _timer[o]
            /\ _stopped'[o] = _stopped[o]
      ]_vars

\* a start() was ignored while a repeating firing's callback is executing
C11_Witness ==
    /\ ignored[1] /\ mainpc = "idle" /\ repeat[1] /\ ~_stopped[1]
    /\ nthr = 1 /\ _timer[1] = 1 /\ thr[1].st = "callback"
    /\ next_call[1] = anchor[1] + Interval

\* the Timers of object o that are armed: started, not yet fired or cancelled
Armed(o) == {t \in Live(o) : thr[t].st = "armed"}

\* C15: a CustomTimer has at most one armed Timer at any time, and an armed
\* Timer is the one _timer refers to: none is armed and unreferenced.
C15_OneArmedTimer ==
    \A o \in Objs :
        /\ Cardinality(Armed(o)) <= 1
        /\ \A t \in Armed(o) : _timer[o] = t

\* the main thread is inside the with-block of start() or stop()
MainLocked == mainpc \in {"start", "stop"}

\* the Timer threads of object o inside the with-block of start() or stop()
Locked(o) == {t \in Live(o) : thr[t].st = "locked"}

\* object o's _stopped, next_call or _timer changes in this step
Mutates(o) ==
    \/ _stopped'[o] # _stopped[o]
    \/ next_call'[o] # next_call[o]
    \/ _timer'[o] # _timer[o]

\* C16: once the timer is constructed, at most one thread is inside a
\* with-block of the timer's lock and the lock names it; _stopped, next_call
\* and _timer change only in a step of the thread that holds the lock, which
\* releases it with that step; a firing holds no lock while its callback runs
\* or while it waits to finish.
C16_LockDiscipline ==
    /\ [](/\ Cardinality(Locked(1)) + (IF MainLocked THEN 1 ELSE 0) <= 1
          /\ MainLocked <=> _lock[1] = Main
          /\ \A t \in Timers : t \in Locked(1) <=> _lock[1] = t
          /\ \A t \in Live(1) :
                thr[t].st \in {"callback", "finally"} => _lock[1] # t)
    /\ [][Mutates(1) =>
            \/ /\ MainLocked /\ _lock[1] = Main /\ mainpc' = "idle"
               /\ \A t \in Live(1) : thr[t].st \in InRun => thr'[t] = thr[t]
            \/ \E t \in Locked(1) :
                 /\ _lock[1] = t /\ thr'[t].st = "done" /\ mainpc' = mainpc
        ]_vars

\* a firing whose callback has ended waits for the lock that stop() holds
C16_Witness ==
    /\ mainpc = "stop" /\ _lock[1] = Main
    /\ \E t \in Live(1) : thr[t].st = "finally"

\* C17: when a repeating firing rearms within an unstopped cadence, next_call
\* advances by exactly one interval and is not set from the clock; the new
\* timer's delay is never negative, it is next_call - now when that is
\* positive, and exactly 0 when the callback overran (now > the old
\* next_call + Interval).
C17_OverrunDelayZero ==
    [][\A t \in Timers :
         Ends(t) /\ repeat[thr[t].owner] /\ next_call[thr[t].owner] # None =>
            LET o == thr[t].owner
                delay == thr'[nthr'].due - now
            IN /\ nthr' = nthr + 1 /\ _timer'[o] = nthr'
               /\ thr'[nthr'].st = "armed"
               /\ next_call'[o] = next_call[o] + Interval
               /\ delay >= 0
               /\ now > next_call[o] + Interval => delay = 0
               /\ now <= next_call[o] + Interval
                     => delay = next_call[o] + Interval - now
      ]_vars

\* the first callback overran: it began at 3 and ended after 5, so the
\* second timer was armed with delay 0 and next_call is 5, behind the clock
C17_Witness ==
    /\ repeat[1] /\ anchor[1] = 1 /\ armCount[1] = 2
    /\ next_call[1] = 1 + 2 * Interval /\ now > next_call[1]
    /\ _timer[1] = 2 /\ thr[2].st = "armed" /\ thr[2].due = now

\* C20: a Timer that start() armed goes on to fire unless a stop() called from
\* outside cancels it: it leaves the armed state only by firing or in the
\* step of an external stop(), never in the completion step of an earlier
\* firing.
C20_ArmedFiresUnlessStopped ==
    [][\A t \in Timers :
         t <= nthr /\ thr[t].st = "armed" /\ thr'[t].st # "armed" =>
            \/ thr'[t].st = "callback" /\ now >= thr[t].due
            \/ /\ thr'[t].st = "cancelled"
               /\ mainpc = "stop" /\ _lock[thr[t].owner] = Main
               /\ mainpc' = "idle"
      ]_vars

\* ---- properties of TetheredDriveApp ----
Polling(t) == t <= nthr /\ thr[t].st \in {"armed"} \cup InRun

\* C4: once on_quit has run, no poll timer is armed and no poll firing is
\* running: teardown stopped the poll timer and waited for a poll in flight.
C4_TeardownStopsPolling ==
    quit => \A t \in Timers : ~Polling(t)

\* C5: without a robot every command is rejected with the not-connected
\* error, no command is sent or waiting, and velocity, rotation and the
\* polling state keep their initial values.
C5_DisconnectedRejected ==
    robot = "None" =>
        /\ report.key \in CommandKeys => report.err = "NotConnected"
        /\ pending = <<>> /\ sent = <<>> /\ chan = None /\ mainpc = "idle"
        /\ velocity = 0 /\ rotation = 0
        /\ ~sensor_polling_active /\ sensor_poll_timer = None /\ nobj = 0

\* q is the rational number h/2 truncated toward zero
IsTrunc(q, h) ==
    /\ h >= 0 => q >= 0 /\ 2 * q <= h /\ h < 2 * q + 2
    /\ h < 0 => q <= 0 /\ 2 * q >= h /\ h > 2 * q - 2

IsDrive(cmd, v, r) ==
    /\ cmd[1] = "drive"
    /\ IsTrunc(cmd[2], 2 * v - r)
    /\ IsTrunc(cmd[3], 2 * v + r)

\* C6: the command _set_motion hands to drive_direct, and the command sent,
\* is (velocity - rotation/2, velocity + rotation/2) truncated toward zero;
\* (200, 300) gives (50, 350) and (200, 0) gives (200, 200).
C6_DriveCommand ==
    /\ pending # <<>> /\ pending[1][1] = "drive"
         => /\ IsDrive(pending[1], velocity, rotation)
            /\ velocity = 200 /\ rotation = 300 => pending[1] = <<"drive", 50, 350>>
            /\ velocity = 200 /\ rotation = 0 => pending[1] = <<"drive", 200, 200>>
    /\ mainpc = "idle" /\ sent # <<>> => IsDrive(sent, velocity, rotation)

\* a negative odd case has been sent: int(-1 - 1.5) = -2, int(-1 + 1.5) = 0
C6_Witness ==
    velocity = -1 /\ rotation = 3 /\ mainpc = "idle" /\ sent = <<"drive", -2, 0>>

\* C7: a query of poll_sensors and a command of the main thread are never in
\* progress on the connection at the same time.
C7_SerializedChannel ==
    ~(mainpc = "sending" /\ \E t \in Timers : t <= nthr /\ thr[t].st = "io")

\* a drive command waits while a poll's query holds the channel
C7_Witness ==
    /\ mainpc = "send" /\ pending # <<>> /\ pending[1][1] = "drive"
    /\ \E t \in Timers : t <= nthr /\ thr[t].st = "io" /\ chan = t

\* C12: with a robot, releasing UP or DOWN sets velocity to 0 and leaves
\* rotation as it was, releasing LEFT or RIGHT sets rotation to 0 and leaves
\* velocity as it was; the command handed over is the one of the reset axis
\* and the untouched other axis, and it is the command sent afterwards.
C12_KeyUpResetsOneAxis ==
    [][/\ \A key \in MotionKeys :
            KeyRelease(key) /\ robot = "conn" =>
               /\ key \in {"UP", "DOWN"} =>
                     /\ velocity' = 0 /\ rotation' = rotation
                     /\ Len(pending') = 1 /\ IsDrive(pending'[1], 0, rotation)
               /\ key \in {"LEFT", "RIGHT"} =>
                     /\ rotation' = 0 /\ velocity' = velocity
                     /\ Len(pending') = 1 /\ IsDrive(pending'[1], velocity, 0)
       /\ mainpc = "sending" /\ pending[1][1] = "drive" =>
            sent' = pending[1] /\ velocity' = velocity /\ rotation' = rotation
      ]_vars

\* UP was released while turning: (200, 300), sent as (50, 350), became
\* (0, 300), and the command (-150, 150) is handed over
C12_Witness ==
    /\ velocity = 0 /\ rotation = 300 /\ mainpc = "send"
    /\ sent = <<"drive", 50, 350>>
    /\ pending = << <<"drive", -150, 150>> >>

\* C13: on_connect with a robot is rejected, constructs no Create2 and leaves
\* the robot attribute as it was; a connect that fails or is cancelled
\* constructs none either and leaves the application without a robot; a
\* Create2 is constructed only by a successful connect without a robot.
C13_ConnectRejected ==
    [][/\ \A res \in {"ok", "failed", "cancelled"} :
            OnConnect(res) =>
               /\ robot # "None" =>
                     /\ robot' = robot /\ nconn' = nconn
                     /\ report' = [key |-> "connect", err |-> "AlreadyConnected"]
               /\ robot = "None" /\ res # "ok" =>
                     /\ robot' = "None" /\ nconn' = nconn
                     /\ report' = [key |-> "connect", err |-> res]
       /\ nconn' # nconn \/ (robot' = "conn" /\ robot # "conn") =>
            /\ robot = "None" /\ nconn = 0
            /\ robot' = "conn" /\ nconn' = 1
      ]_vars

\* a second connect was rejected: one Create2 exists and the handle is kept
C13_Witness ==
    /\ robot = "conn" /\ nconn = 1
    /\ report = [key |-> "connect", err |-> "AlreadyConnected"]

\* C14: with a robot, whenever the handler of an arrow key, pressed or
\* released, has returned, the drive command sent last is the one of the
\* current velocity and rotation; once either is not 0 a command has been sent.
C14_LastCommandCurrent ==
    mainpc = "idle" /\ robot # "None" =>
        /\ velocity # 0 \/ rotation # 0 => sent # <<>>
        /\ sent # <<>> =>
              /\ IsDrive(sent, velocity, rotation)
              /\ rotation = 0 => sent = <<"drive", velocity, velocity>>
              /\ velocity = 0 => sent[2] = -sent[3]

\* DOWN and RIGHT are held: (-200, -300) was sent as (-50, -350)
C14_Witness ==
    /\ mainpc = "idle" /\ robot = "conn"
    /\ velocity = -200 /\ rotation = -300
    /\ sent = <<"drive", -50, -350>>

\* C18: once a snapshot is on display, the sensor_text widget holds exactly
\* one complete snapshot in every state a reader can observe: it is never
\* empty and never holds more than the text of one poll.
C18_SnapshotWholesale ==
    [][Len(sensor_text) = 1 => Len(sensor_text') = 1]_vars

\* the CustomTimer objects with an armed Timer: the poll schedules alive
Schedules == {o \in Objs : o <= nobj /\ Armed(o) # {}}

\* C19: at most one poll schedule is alive at any time, it is the one
\* sensor_poll_timer refers to, and while sensor_polling_active is false no
\* poll firing is armed.
C19_OnePollSchedule ==
    /\ Cardinality(Schedules) <= 1
    /\ \A o \in Schedules : sensor_poll_timer = o
    /\ ~sensor_polling_active => Schedules = {}

====
